---------------------------- MODULE Spec2Model ----------------------------
(***************************************************************************)
(* Model of the Olist dashboard repository:                                *)
(*   src/data_processing.py  load_and_prepare_data (the pipeline)          *)
(*   src/app.py              the Streamlit script that consumes it         *)
(*                                                                         *)
(* A DataFrame is a sequence of rows; a row is a function from column      *)
(* names to cells.  A cell of a non-key, non-money column is <<>> (NaN /   *)
(* NaT) or <<v>>.                                                          *)
(* A raw date cell of the CSV is the sequence of its numeric fields        *)
(* <<year, month, day, hour, minute, second>>; the empty cell is <<>>.     *)
(* Timestamps are seconds since 2016-01-01 00:00:00.  Money is in cents.   *)
(* Key columns (order_id, product_id, customer_id) are never null and are  *)
(* unique in orders, products and customers, as in the Olist schema.       *)
(***************************************************************************)
EXTENDS Integers, Sequences, FiniteSets, TLC

VARIABLES
    entry,      \* "main": python data_processing.py; "app": streamlit run app.py
    files,      \* state of each of the five CSV files on disk
    csv,        \* contents of the five CSV files
    pc,         \* position in the program
    orders, reviews, items, products, customers,   \* locals of load_and_prepare_data
    master_df, final_df,                           \* locals of load_and_prepare_data
    returned,   \* what load_and_prepare_data gave its caller
    stdout,     \* lines printed
    df,         \* app.py: df
    widgets,    \* app.py: values the user gave the two sidebar widgets
    filtered_df,\* app.py: filtered_df
    rendered    \* app.py: elements shown on the page, in order

vars == <<entry, files, csv, pc, orders, reviews, items, products, customers,
          master_df, final_df, returned, stdout, df, widgets, filtered_df, rendered>>

pipelineVars == <<orders, reviews, items, products, customers, master_df, final_df>>
appVars == <<df, widgets, filtered_df, rendered>>

-----------------------------------------------------------------------------
(* Bounds of the input tables *)

MaxReviews == 2
MaxItems == 2

-----------------------------------------------------------------------------
(* Cells *)

NaN == <<>>
NaT == <<>>
IsNull(c) == c = <<>>
Val(c) == c[1]

RECURSIVE SeqSum(_)
SeqSum(s) == IF s = <<>> THEN 0 ELSE Head(s) + SeqSum(Tail(s))

RECURSIVE Concat(_)
Concat(ss) == IF ss = <<>> THEN <<>> ELSE Head(ss) \o Concat(Tail(ss))

Column(frame, col) == [i \in 1..Len(frame) |-> frame[i][col]]

\* floor division by a positive number (\div of Integers rounds down)
FloorDiv(a, b) == a \div b

-----------------------------------------------------------------------------
(* The five files, in the order load_and_prepare_data reads them *)

FileNames == << "olist_orders_dataset.csv", "olist_order_reviews_dataset.csv",
                "olist_order_items_dataset.csv", "olist_products_dataset.csv",
                "olist_customers_dataset.csv" >>

data_path == "olsit data/"

FileStates == {"ok", "missing", "unreadable"}

\* pd.read_csv on file number i: the table, or the exception it raises
ReadCsvLenient(i) ==
    [ exc |-> "none", table |-> IF files[i] = "ok" THEN csv[i] ELSE <<>> ]

ReadCsv(i) ==
    CASE files[i] = "ok"         -> [ exc |-> "none", table |-> csv[i] ]
      [] files[i] = "missing"    -> [ exc |-> "FileNotFoundError", table |-> <<>> ]
      [] files[i] = "unreadable" -> [ exc |-> "PermissionError", table |-> <<>> ]

\* number of the first read that raises, 0 when none does
FirstRaise == IF \E i \in 1..Len(FileNames) : ReadCsv(i).exc # "none"
              THEN CHOOSE i \in 1..Len(FileNames) :
                      /\ ReadCsv(i).exc # "none"
                      /\ \A j \in 1..(i-1) : ReadCsv(j).exc = "none"
              ELSE 0

\* the table a local holds after the try block: read only if no earlier read raised
Loaded(i) == IF FirstRaise = 0 \/ i < FirstRaise THEN ReadCsv(i).table ELSE <<>>

-----------------------------------------------------------------------------
(* pd.to_datetime(..., errors='coerce') on one cell *)

IsLeap(y) == (y % 4 = 0 /\ y % 100 # 0) \/ y % 400 = 0

DaysInMonth(y, m) ==
    CASE m \in {1, 3, 5, 7, 8, 10, 12} -> 31
      [] m \in {4, 6, 9, 11}           -> 30
      [] OTHER                         -> IF IsLeap(y) THEN 29 ELSE 28

Years == 2016..2019

RECURSIVE DaysBeforeYear(_)
DaysBeforeYear(y) ==
    IF y <= 2016 THEN 0
    ELSE DaysBeforeYear(y - 1) + (IF IsLeap(y - 1) THEN 366 ELSE 365)

RECURSIVE DaysBeforeMonth(_, _)
DaysBeforeMonth(y, m) ==
    IF m <= 1 THEN 0 ELSE DaysBeforeMonth(y, m - 1) + DaysInMonth(y, m - 1)

WellFormedDate(raw) ==
    /\ Len(raw) = 6
    /\ raw[1] \in Years
    /\ raw[2] \in 1..12
    /\ raw[3] \in 1..DaysInMonth(raw[1], raw[2])
    /\ raw[4] \in 0..23
    /\ raw[5] \in 0..59
    /\ raw[6] \in 0..59

to_datetime(raw) ==
    IF WellFormedDate(raw)
    THEN << ((DaysBeforeYear(raw[1]) + DaysBeforeMonth(raw[1], raw[2]) + raw[3] - 1) * 24
              + raw[4]) * 3600 + raw[5] * 60 + raw[6] >>
    ELSE NaT

date_cols == { "order_purchase_timestamp", "order_approved_at",
               "order_delivered_carrier_date", "order_delivered_customer_date",
               "order_estimated_delivery_date" }

-----------------------------------------------------------------------------
(* 2. Initial cleaning *)

\* products.dropna(subset=['product_category_name'])
DropNullCategoryNoOp(prods) == prods

DropNullCategory(prods) ==
    SelectSeq(prods, LAMBDA p : ~IsNull(p["product_category_name"]))

\* for col in date_cols: orders[col] = pd.to_datetime(orders[col], errors='coerce')
ParseDates(ords) ==
    [ i \in 1..Len(ords) |->
        [ c \in DOMAIN ords[i] |->
            IF c \in date_cols THEN to_datetime(ords[i][c]) ELSE ords[i][c] ] ]

\* orders.dropna(subset=['order_delivered_customer_date', 'order_estimated_delivery_date'])
DropUndeliveredOnly(ords) ==
    SelectSeq(ords, LAMBDA o : ~IsNull(o["order_delivered_customer_date"]))

DropUndated(ords) ==
    SelectSeq(ords, LAMBDA o : /\ ~IsNull(o["order_delivered_customer_date"])
                               /\ ~IsNull(o["order_estimated_delivery_date"]))

-----------------------------------------------------------------------------
(* 3. Feature engineering *)

SecondsPerDay == 24 * 3600

\* (estimated - delivered).dt.days : Timedelta.days is the floor of the day count;
\* a NaT operand gives NaT and .dt.days gives NaN
TruncDays(est, del) ==
    IF IsNull(est) \/ IsNull(del) THEN NaN
    ELSE LET d == Val(est) - Val(del)
         IN  << IF d >= 0 THEN FloorDiv(d, SecondsPerDay)
                ELSE -FloorDiv(-d, SecondsPerDay) >>

TimedeltaDays(est, del) ==
    IF IsNull(est) \/ IsNull(del) THEN NaN
    ELSE << FloorDiv(Val(est) - Val(del), SecondsPerDay) >>

\* lambda x: 'Late' if x < 0 else 'On-Time/Early'   (NaN < 0 is False)
DeliveryStatusInclusive(x) ==
    IF ~IsNull(x) /\ Val(x) <= 0 THEN <<"Late">> ELSE <<"On-Time/Early">>

DeliveryStatus(x) ==
    IF ~IsNull(x) /\ Val(x) < 0 THEN <<"Late">> ELSE <<"On-Time/Early">>

DeriveFeatures(ords) ==
    [ i \in 1..Len(ords) |->
        LET t == TimedeltaDays(ords[i]["order_estimated_delivery_date"],
                               ords[i]["order_delivered_customer_date"])
        IN  ords[i] @@ ("Delivery Timeliness" :> t)
                    @@ ("Delivery Status" :> DeliveryStatus(t)) ]

-----------------------------------------------------------------------------
(* 4. Merging: pd.merge(left, right, on=key), an inner join that keeps the  *)
(* order of the left rows and, for one left row, the order of the right    *)
(* rows that match it                                                      *)

Matches(l, right, key) == SelectSeq(right, LAMBDA r : r[key] = l[key])

Merge(left, right, key) ==
    Concat([ i \in 1..Len(left) |->
               LET ms == Matches(left[i], right, key)
               IN  [ j \in 1..Len(ms) |-> left[i] @@ ms[j] ] ])

\* a left join: an unmatched left row is kept, the right columns null
MergeReviewsLeft(ords, revs) ==
    Concat([ i \in 1..Len(ords) |->
               LET ms == Matches(ords[i], revs, "order_id")
               IN  IF ms = <<>> THEN << ords[i] @@ ("review_score" :> NaN) >>
                   ELSE [ j \in 1..Len(ms) |-> ords[i] @@ ms[j] ] ])

MergeReviews(ords, revs) == Merge(ords, revs, "order_id")

MergeAll(ords, revs, its, prods, custs) ==
    Merge(Merge(Merge(MergeReviews(ords, revs), its, "order_id"),
                prods, "product_id"),
          custs, "customer_id")

-----------------------------------------------------------------------------
(* 5. Aggregation: master_df.groupby('order_id').agg(agg_funcs).reset_index() *)

RECURSIVE SortedSeq(_)
SortedSeq(S) ==
    IF S = {} THEN <<>>
    ELSE LET m == CHOOSE x \in S : \A y \in S : x <= y
         IN  <<m>> \o SortedSeq(S \ {m})

\* one group per row instead of one per key
GroupKeysPerRow(frame) == Column(frame, "order_id")

\* groupby sorts the distinct keys
GroupKeys(frame) == SortedSeq({ frame[i]["order_id"] : i \in 1..Len(frame) })

Group(frame, k) == SelectSeq(frame, LAMBDA r : r["order_id"] = k)

\* the value of the group's first row, null or not
AggFirstRow(group, col) == group[1][col]

\* GroupBy 'first': the first non-null value of the column, NaN if there is none
AggFirst(group, col) ==
    LET nn == SelectSeq(Column(group, col), LAMBDA c : ~IsNull(c))
    IN  IF nn = <<>> THEN NaN ELSE nn[1]

\* GroupBy 'sum'
AggSum(group, col) == SeqSum(Column(group, col))

first_cols == { "order_purchase_timestamp", "review_score", "Delivery Timeliness",
                "Delivery Status", "product_category_name", "customer_state" }
sum_cols == { "price", "freight_value" }

Aggregate(frame) ==
    LET ks == GroupKeys(frame)
    IN  [ n \in 1..Len(ks) |->
            LET g == Group(frame, ks[n])
            IN  [ c \in {"order_id"} \cup first_cols \cup sum_cols |->
                    CASE c = "order_id"  -> ks[n]
                      [] c \in sum_cols  -> AggSum(g, c)
                      [] OTHER           -> AggFirst(g, c) ] ]

\* 6. final_df.rename(columns={'review_score': 'Review Score'})
NewName(c) == IF c = "review_score" THEN "Review Score" ELSE c

Rename(frame) ==
    [ i \in 1..Len(frame) |->
        [ c \in { NewName(x) : x \in DOMAIN frame[i] } |->
            IF c = "Review Score" THEN frame[i]["review_score"] ELSE frame[i][c] ] ]


-----------------------------------------------------------------------------
(* Input: the contents of the CSV files *)

OrderIds == {1, 2}

OrderRow(id, cust, purchase, delivered, estimated) ==
    [ order_id |-> id, customer_id |-> cust,
      order_purchase_timestamp |-> purchase,
      order_approved_at |-> purchase,
      order_delivered_carrier_date |-> delivered,
      order_delivered_customer_date |-> delivered,
      order_estimated_delivery_date |-> estimated ]

ReviewRow(id, score) == [ order_id |-> id, review_score |-> score ]

ItemRow(id, pos, prod, cents, freight) ==
    [ order_id |-> id, order_item_id |-> pos, product_id |-> prod,
      price |-> cents, freight_value |-> freight ]

ProductRow(prod, cat) == [ product_id |-> prod, product_category_name |-> cat ]

CustomerRow(cust, state) == [ customer_id |-> cust, customer_state |-> state ]

SeqsUpTo(S, n) == UNION { [1..k -> S] : k \in 0..n }

\* date cells: "2018-05-10 00:00:00", one second later, two days later,
\* "2018-05-09 06:00:00", the empty cell, and two malformed ones
DateCells == { <<2018, 5, 10, 0, 0, 0>>, <<2018, 5, 10, 0, 0, 1>>,
               <<2018, 5, 12, 0, 0, 0>>, <<2018, 5, 9, 6, 0, 0>>,
               <<>>, <<2018, 13, 45, 0, 0, 0>>, <<2018, 2, 29, 0, 0, 0>> }

PurchaseA == <<2018, 4, 20, 10, 30, 0>>
PurchaseB == <<2018, 5, 2, 8, 0, 0>>

\* an item of product 1 costs 10.00 + 2.00 freight, of product 2 15.00 + 3.00
PriceOf(prod) == IF prod = 1 THEN 1000 ELSE 1500
FreightOf(prod) == IF prod = 1 THEN 200 ELSE 300

\* the items table for a sequence of (order_id, product_id) pairs;
\* order_item_id numbers the items of one order 1, 2, ...
ItemsTable(pairs) ==
    [ i \in 1..Len(pairs) |->
        ItemRow(pairs[i][1],
                Cardinality({ j \in 1..i : pairs[j][1] = pairs[i][1] }),
                pairs[i][2], PriceOf(pairs[i][2]), FreightOf(pairs[i][2])) ]

BaseOrders == << OrderRow(1, 1, PurchaseA, <<2018, 5, 12, 0, 0, 0>>, <<2018, 5, 10, 0, 0, 0>>),
                 OrderRow(2, 2, PurchaseB, <<2018, 5, 10, 0, 0, 0>>, <<2018, 5, 10, 0, 0, 0>>) >>
BaseReviews == << ReviewRow(1, <<1>>), ReviewRow(2, <<5>>) >>
BaseItems == ItemsTable(<< <<1, 1>>, <<2, 2>> >>)
BaseProducts == << ProductRow(1, <<"toys">>), ProductRow(2, <<"auto">>) >>
BaseCustomers == << CustomerRow(1, <<"SP">>), CustomerRow(2, <<"RJ">>) >>

AllOk == [ i \in 1..Len(FileNames) |-> "ok" ]

\* orders with several reviews and items, products without a category,
\* customers without a state, items and orders that match nothing
ReviewTables ==
    { [ i \in 1..Len(s) |-> ReviewRow(s[i][1], s[i][2]) ] :
        s \in SeqsUpTo({ <<1, <<>> >>, <<1, <<5>> >>, <<2, <<1>> >>, <<2, <<>> >> },
                       MaxReviews) }
ItemTables ==
    { ItemsTable(s) : s \in SeqsUpTo({ <<1, 1>>, <<1, 2>>, <<2, 1>>, <<2, 2>> }, MaxItems) }
ProductTables ==
    { << ProductRow(1, c) >> \o t :
        c \in { <<"toys">>, NaN }, t \in { <<>>, << ProductRow(2, <<"auto">>) >> } }
CustomerTables ==
    { << CustomerRow(1, c) >> \o t :
        c \in { <<"SP">>, NaN }, t \in { <<>>, << CustomerRow(2, <<"RJ">>) >> } }

MergeInputs ==
    { << BaseOrders, r, i, p, c >> :
        r \in ReviewTables, i \in ItemTables, p \in ProductTables, c \in CustomerTables }

\* orders whose dates are early, late, late by a second, missing or malformed
DateInputs ==
    { << << OrderRow(1, 1, p, d, e), OrderRow(2, 2, PurchaseB, d2, <<2018, 5, 10, 0, 0, 0>>) >>,
         BaseReviews, BaseItems, BaseProducts, BaseCustomers >> :
        p \in { PurchaseA, <<2018, 13, 45, 0, 0, 0>> }, d \in DateCells, e \in DateCells,
        d2 \in { <<2018, 5, 10, 0, 0, 0>>, <<>> } }

BaseInput == << BaseOrders, BaseReviews, BaseItems, BaseProducts, BaseCustomers >>

\* what the dashboard is run on: the base tables, a table set whose result is
\* empty, one whose purchase timestamps are all malformed, or a file in trouble
AppInputs ==
    { BaseInput,
      << BaseOrders, <<>>, BaseItems, BaseProducts, BaseCustomers >>,
      << << OrderRow(1, 1, <<>>, <<2018, 5, 12, 0, 0, 0>>, <<2018, 5, 10, 0, 0, 0>>) >>,
         BaseReviews, BaseItems, BaseProducts, BaseCustomers >> }
AppFiles ==
    { AllOk } \cup { [ AllOk EXCEPT ![i] = st ] :
                       i \in 1..Len(FileNames), st \in { "missing", "unreadable" } }

-----------------------------------------------------------------------------
(* The program *)

Init ==
    /\ \/ /\ entry = "main"
          /\ \/ files = AllOk /\ csv \in MergeInputs \cup DateInputs
             \/ files \in [ 1..Len(FileNames) -> FileStates ] /\ csv = BaseInput
       \/ /\ entry = "app"
          /\ files \in AppFiles
          /\ csv \in AppInputs
    /\ pc = "load"
    /\ orders = <<>> /\ reviews = <<>> /\ items = <<>>
    /\ products = <<>> /\ customers = <<>>
    /\ master_df = <<>> /\ final_df = <<>>
    /\ returned = "pending"
    /\ stdout = <<>>
    /\ df = [ kind |-> "unset", rows |-> <<>> ]
    /\ widgets = [ start |-> NaT, end |-> NaT, cats |-> {} ]
    /\ filtered_df = <<>>
    /\ rendered = <<>>

\* where load_and_prepare_data returns to: data_processing.py line 87 or app.py line 19
AfterReturn == IF entry = "main" THEN "main_report" ELSE "tz_localize"

\* an exception nothing catches ends the script; Streamlit shows it on the page
Uncaught(exc) ==
    /\ pc' = "uncaught"
    /\ rendered' = IF entry = "app" THEN Append(rendered, "st.exception:" \o exc)
                   ELSE rendered

\* 1. Data loading: the try block and its except FileNotFoundError
LoadData ==
    /\ pc = "load"
    /\ orders' = Loaded(1)
    /\ reviews' = Loaded(2)
    /\ items' = Loaded(3)
    /\ products' = Loaded(4)
    /\ customers' = Loaded(5)
    /\ IF FirstRaise = 0
       THEN /\ pc' = "clean"
            /\ UNCHANGED <<returned, stdout, rendered>>
       ELSE IF ReadCsv(FirstRaise).exc = "FileNotFoundError"
       THEN /\ stdout' = stdout \o
                  << "Error loading data files: No such file or directory: "
                        \o data_path \o FileNames[FirstRaise],
                     "Please ensure the Olist dataset CSV files are in the correct directory." >>
            /\ returned' = "None"
            /\ pc' = AfterReturn
            /\ UNCHANGED rendered
       ELSE /\ returned' = "raised"
            /\ Uncaught(ReadCsv(FirstRaise).exc)
            /\ UNCHANGED stdout
    /\ UNCHANGED <<entry, files, csv, master_df, final_df, df, widgets, filtered_df>>

\* 2. Initial cleaning
Clean ==
    /\ pc = "clean"
    /\ products' = DropNullCategory(products)
    /\ orders' = DropUndated(ParseDates(orders))
    /\ pc' = "derive"
    /\ UNCHANGED <<entry, files, csv, reviews, items, customers, master_df, final_df,
                   returned, stdout, appVars>>

\* 3. Feature engineering
Derive ==
    /\ pc = "derive"
    /\ orders' = DeriveFeatures(orders)
    /\ pc' = "merge"
    /\ UNCHANGED <<entry, files, csv, reviews, items, products, customers, master_df,
                   final_df, returned, stdout, appVars>>

\* 4. Data merging
MergeTables ==
    /\ pc = "merge"
    /\ master_df' = MergeAll(orders, reviews, items, products, customers)
    /\ pc' = "aggregate"
    /\ UNCHANGED <<entry, files, csv, orders, reviews, items, products, customers,
                   final_df, returned, stdout, appVars>>

\* 5. and 6. Aggregation, the rename, and the return
AggregateAndReturn ==
    /\ pc = "aggregate"
    /\ final_df' = Rename(Aggregate(master_df))
    /\ stdout' = Append(stdout, "Data processing complete.")
    /\ returned' = "DataFrame"
    /\ pc' = AfterReturn
    /\ UNCHANGED <<entry, files, csv, orders, reviews, items, products, customers,
                   master_df, appVars>>

\* data_processing.py run as a script
MainReport ==
    /\ pc = "main_report"
    /\ stdout' = IF returned # "None"
                 THEN Append(stdout, "Master table created successfully:")
                 ELSE stdout
    /\ pc' = "exit"
    /\ UNCHANGED <<entry, files, csv, pipelineVars, returned, appVars>>

-----------------------------------------------------------------------------
(* app.py: one run of the script *)

\* load_data, after load_and_prepare_data returned: df[...] on None raises TypeError;
\* tz_localize(None) leaves the timezone-naive timestamps as they are
TzLocalize ==
    /\ pc = "tz_localize"
    /\ IF returned = "None"
       THEN /\ Uncaught("TypeError")
            /\ UNCHANGED df
       ELSE /\ df' = [ kind |-> "DataFrame", rows |-> final_df ]
            /\ pc' = "check_none"
            /\ UNCHANGED rendered
    /\ UNCHANGED <<entry, files, csv, pipelineVars, returned, stdout, widgets, filtered_df>>

\* if df is None: st.error(...); st.stop()
CheckNone ==
    /\ pc = "check_none"
    /\ IF df.kind = "None"
       THEN /\ rendered' = Append(rendered,
                   "st.error:Failed to load data. Please check the data files and path.")
            /\ pc' = "stopped"
       ELSE /\ pc' = "title"
            /\ UNCHANGED rendered
    /\ UNCHANGED <<entry, files, csv, pipelineVars, returned, stdout, df, widgets, filtered_df>>

Title ==
    /\ pc = "title"
    /\ rendered' = rendered \o << "st.title", "st.markdown", "st.sidebar.header:Filters" >>
    /\ pc' = "slider"
    /\ UNCHANGED <<entry, files, csv, pipelineVars, returned, stdout, df, widgets, filtered_df>>

\* the non-null values of df['order_purchase_timestamp']: min() and max() skip NaT
PurchaseTimes ==
    { Val(df.rows[i]["order_purchase_timestamp"]) :
        i \in { j \in 1..Len(df.rows) : ~IsNull(df.rows[j]["order_purchase_timestamp"]) } }

\* The date range slider.  With no purchase timestamp min_date and max_date are NaT,
\* and what st.sidebar.slider does with NaT bounds is not decided by this repository:
\* it raises, or it shows the widget and returns the bounds.
Slider ==
    /\ pc = "slider"
    /\ IF PurchaseTimes = {}
       THEN \/ /\ Uncaught("slider")
               /\ UNCHANGED widgets
            \/ /\ rendered' = Append(rendered, "st.sidebar.slider")
               /\ widgets' = [ widgets EXCEPT !.start = NaT, !.end = NaT ]
               /\ pc' = "multiselect"
       ELSE \E lo \in PurchaseTimes, hi \in PurchaseTimes :
               /\ lo <= hi
               /\ rendered' = Append(rendered, "st.sidebar.slider")
               /\ widgets' = [ widgets EXCEPT !.start = <<lo>>, !.end = <<hi>> ]
               /\ pc' = "multiselect"
    /\ UNCHANGED <<entry, files, csv, pipelineVars, returned, stdout, df, filtered_df>>

all_categories ==
    { df.rows[i]["product_category_name"] : i \in 1..Len(df.rows) }

Multiselect ==
    /\ pc = "multiselect"
    /\ \E sel \in SUBSET all_categories :
          widgets' = [ widgets EXCEPT !.cats = sel ]
    /\ rendered' = Append(rendered, "st.sidebar.multiselect")
    /\ pc' = "filter"
    /\ UNCHANGED <<entry, files, csv, pipelineVars, returned, stdout, df, filtered_df>>

\* a comparison with NaT is False
InRange(t) ==
    /\ ~IsNull(t) /\ ~IsNull(widgets.start) /\ ~IsNull(widgets.end)
    /\ Val(t) >= Val(widgets.start)
    /\ Val(t) <= Val(widgets.end)

Filtered ==
    SelectSeq(df.rows, LAMBDA r : /\ InRange(r["order_purchase_timestamp"])
                                  /\ r["product_category_name"] \in widgets.cats)

\* filtered_df = df[...]; if filtered_df.empty: st.warning(...); st.stop()
Filter ==
    /\ pc = "filter"
    /\ filtered_df' = Filtered
    /\ IF Filtered = <<>>
       THEN /\ rendered' = Append(rendered,
                   "st.warning:No data available for the selected filters.")
            /\ pc' = "stopped"
       ELSE /\ pc' = "kpi"
            /\ UNCHANGED rendered
    /\ UNCHANGED <<entry, files, csv, pipelineVars, returned, stdout, df, widgets>>

KPIs ==
    /\ pc = "kpi"
    /\ rendered' = rendered \o
          << "st.header:Executive KPI Summary", "st.metric:Total Orders",
             "st.metric:Avg. Review Score", "st.metric:Late Delivery Rate",
             "st.metric:Total Revenue", "st.markdown" >>
    /\ pc' = "charts"
    /\ UNCHANGED <<entry, files, csv, pipelineVars, returned, stdout, df, widgets, filtered_df>>

Charts ==
    /\ pc = "charts"
    /\ rendered' = rendered \o
          << "st.header:Detailed Analysis",
             "st.plotly_chart:Average Review Score by Delivery Status",
             "st.plotly_chart:Late Delivery Rate by State",
             "st.plotly_chart:Revenue vs. Satisfaction by Product Category",
             "st.plotly_chart:Monthly Orders & Late Delivery Trend" >>
    /\ pc' = "page_complete"
    /\ UNCHANGED <<entry, files, csv, pipelineVars, returned, stdout, df, widgets, filtered_df>>

Next ==
    \/ LoadData \/ Clean \/ Derive \/ MergeTables \/ AggregateAndReturn \/ MainReport
    \/ TzLocalize \/ CheckNone \/ Title \/ Slider \/ Multiselect \/ Filter \/ KPIs \/ Charts

Spec == Init /\ [][Next]_vars

-----------------------------------------------------------------------------
(* Properties *)

\* load_and_prepare_data returned its table
Done == returned = "DataFrame"

FinalIds == { final_df[n]["order_id"] : n \in 1..Len(final_df) }

\* the rows of the input files
OrdersCsv == csv[1]
ReviewsCsv == csv[2]
ItemsCsv == csv[3]
ProductsCsv == csv[4]
CustomersCsv == csv[5]

\* the item rows of order k that are in some merged row (order_item_id names them)
FedItems(k) ==
    { i \in 1..Len(ItemsCsv) :
        /\ ItemsCsv[i]["order_id"] = k
        /\ \E m \in 1..Len(master_df) :
              /\ master_df[m]["order_id"] = k
              /\ master_df[m]["order_item_id"] = ItemsCsv[i]["order_item_id"] }

ItemTotal(k, col) ==
    SeqSum([ i \in 1..Len(ItemsCsv) |-> IF i \in FedItems(k) THEN ItemsCsv[i][col] ELSE 0 ])

\* C1: price and freight_value of every record are the sums of those fields over
\* the order's item rows that took part in the merge, each item row counted once,
\* for any number of items and reviews of the order.
C1_SumsCountEachItemOnce ==
    Done => \A n \in 1..Len(final_df) :
               /\ final_df[n]["price"] = ItemTotal(final_df[n]["order_id"], "price")
               /\ final_df[n]["freight_value"]
                     = ItemTotal(final_df[n]["order_id"], "freight_value")

\* C2: order_id is unique in the final table: no two rows carry the same order_id.
C2_OrderIdUnique ==
    Done => \A i, j \in 1..Len(final_df) :
               i # j => final_df[i]["order_id"] # final_df[j]["order_id"]

\* an order with two items and two reviews fanned out to four merged rows and
\* came back as one record
C2_FanOutCollapsed ==
    /\ Done
    /\ \E k \in OrderIds :
          /\ Len(Group(master_df, k)) >= 4
          /\ Cardinality({ n \in 1..Len(final_df) : final_df[n]["order_id"] = k }) = 1

\* the customers row of order k
CustomerOf(k) ==
    LET o == CHOOSE x \in { OrdersCsv[i] : i \in 1..Len(OrdersCsv) } : x["order_id"] = k
    IN  CHOOSE c \in { CustomersCsv[i] : i \in 1..Len(CustomersCsv) } :
            c["customer_id"] = o["customer_id"]

\* C3 as stated: no record has a null product_category_name or a null customer_state.
C3_NoNullCategoryOrState ==
    Done => \A n \in 1..Len(final_df) :
               /\ ~IsNull(final_df[n]["product_category_name"])
               /\ ~IsNull(final_df[n]["customer_state"])

\* C3 as amended: no record has a null product_category_name, and a record's
\* customer_state is the customer_state of the order's customer row: it is null
\* when that customer's state is missing.
C3_NoNullCategoryStateAsInCustomers ==
    Done => \A n \in 1..Len(final_df) :
               /\ ~IsNull(final_df[n]["product_category_name"])
               /\ final_df[n]["customer_state"]
                     = CustomerOf(final_df[n]["order_id"])["customer_state"]

\* a record with a null customer_state, of an order that also had an item of a
\* product without a category
C3_NullStateRecord ==
    /\ Done
    /\ \E n \in 1..Len(final_df) :
          /\ IsNull(final_df[n]["customer_state"])
          /\ \E i \in 1..Len(ItemsCsv), p \in 1..Len(ProductsCsv) :
                /\ ItemsCsv[i]["order_id"] = final_df[n]["order_id"]
                /\ ProductsCsv[p]["product_id"] = ItemsCsv[i]["product_id"]
                /\ IsNull(ProductsCsv[p]["product_category_name"])

\* C4: Delivery Status is "Late" iff Delivery Timeliness < 0 and "On-Time/Early"
\* otherwise; a Delivery Timeliness of exactly 0 gives "On-Time/Early".
C4_LateIffNegative ==
    Done => \A n \in 1..Len(final_df) :
               LET t == final_df[n]["Delivery Timeliness"]
                   st == final_df[n]["Delivery Status"]
               IN  /\ ~IsNull(t)
                   /\ st \in { <<"Late">>, <<"On-Time/Early">> }
                   /\ st = <<"Late">> <=> Val(t) < 0
                   /\ Val(t) = 0 => st = <<"On-Time/Early">>

\* a record delivered exactly on the estimated date
C4_ZeroIsOnTime ==
    /\ Done
    /\ \E n \in 1..Len(final_df) :
          /\ final_df[n]["Delivery Timeliness"] = <<0>>
          /\ final_df[n]["Delivery Status"] = <<"On-Time/Early">>

HasReview(k) == \E i \in 1..Len(ReviewsCsv) : ReviewsCsv[i]["order_id"] = k
HasItem(k) == \E i \in 1..Len(ItemsCsv) : ItemsCsv[i]["order_id"] = k
HasCustomer(k) ==
    \E o \in 1..Len(OrdersCsv), c \in 1..Len(CustomersCsv) :
        /\ OrdersCsv[o]["order_id"] = k
        /\ CustomersCsv[c]["customer_id"] = OrdersCsv[o]["customer_id"]
\* every item of the order is of a product whose category is null
OnlyUncategorized(k) ==
    /\ HasItem(k)
    /\ \A i \in 1..Len(ItemsCsv) :
          ItemsCsv[i]["order_id"] = k =>
             \E p \in 1..Len(ProductsCsv) :
                /\ ProductsCsv[p]["product_id"] = ItemsCsv[i]["product_id"]
                /\ IsNull(ProductsCsv[p]["product_category_name"])

\* C5: an order with no review row, no item rows, only items of products with a
\* null category, or a customer_id that matches no customer row is not in the
\* final table.
C5_UnmatchedOrdersAbsent ==
    Done => \A k \in OrderIds :
               (~HasReview(k) \/ ~HasItem(k) \/ OnlyUncategorized(k) \/ ~HasCustomer(k))
                  => k \notin FinalIds

\* one order is in the final table while the other, which has a customer and an
\* item of a product with a category but no review, is not
C5_OneOrderDropped ==
    /\ Done
    /\ final_df # <<>>
    /\ \E k \in OrderIds :
          /\ k \notin FinalIds
          /\ HasItem(k) /\ HasCustomer(k) /\ ~OnlyUncategorized(k) /\ ~HasReview(k)

FirstNotOk == CHOOSE i \in 1..Len(FileNames) :
                 files[i] # "ok" /\ \A j \in 1..(i-1) : files[j] = "ok"

\* C6: when one of the five files is missing or unreadable, the pipeline fails at
\* the load step with a failure that names the path: it returns None or raises,
\* no later step runs, and no table, partial or not, is built or returned.
C6_MissingFileNoTable ==
    (\E i \in 1..Len(FileNames) : files[i] # "ok") =>
        /\ returned \in { "pending", "None", "raised" }
        /\ pc \notin { "clean", "derive", "merge", "aggregate" }
        /\ master_df = <<>> /\ final_df = <<>>
        /\ df.kind = "unset"
        /\ pc # "load" => returned \in { "None", "raised" }
        /\ returned = "None" =>
              /\ files[FirstNotOk] = "missing"
              /\ stdout[1] = "Error loading data files: No such file or directory: "
                                \o "olsit data/" \o FileNames[FirstNotOk]
        /\ returned = "raised" => files[FirstNotOk] = "unreadable" /\ pc = "uncaught"

\* orders and reviews were read, the items file is missing, and None came back
C6_ThirdFileMissing ==
    /\ returned = "None"
    /\ files[1] = "ok" /\ files[2] = "ok" /\ files[3] = "missing"
    /\ orders # <<>> /\ reviews # <<>> /\ items = <<>>

\* a date cell that is empty or is no calendar date
BadDateCells == { <<>>, <<2018, 13, 45, 0, 0, 0>>, <<2018, 2, 29, 0, 0, 0>> }
BadDates(o) == \/ o["order_delivered_customer_date"] \in BadDateCells
               \/ o["order_estimated_delivery_date"] \in BadDateCells

\* C7: every record comes from an order whose delivered and estimated dates both
\* parsed; an order with either date missing or malformed is absent; and a
\* malformed date never aborts the run (with all files readable the table comes back).
C7_OnlyDatedOrders ==
    /\ files = AllOk => /\ returned \notin { "None", "raised" }
                        /\ pc \in { "main_report", "exit" } => Done
    /\ Done => /\ \A n \in 1..Len(final_df) :
                     \E i \in 1..Len(OrdersCsv) :
                        /\ OrdersCsv[i]["order_id"] = final_df[n]["order_id"]
                        /\ ~BadDates(OrdersCsv[i])
               /\ \A i \in 1..Len(OrdersCsv) :
                     BadDates(OrdersCsv[i]) => OrdersCsv[i]["order_id"] \notin FinalIds

\* the run ended with a table although an order had a malformed estimated date
\* and a good delivered date, and that order is not in the table
C7_MalformedDateDropped ==
    /\ Done
    /\ pc = "exit"
    /\ final_df # <<>>
    /\ \E i \in 1..Len(OrdersCsv) :
          /\ OrdersCsv[i]["order_estimated_delivery_date"] = <<2018, 13, 45, 0, 0, 0>>
          /\ OrdersCsv[i]["order_delivered_customer_date"] = <<2018, 5, 10, 0, 0, 0>>
          /\ OrdersCsv[i]["order_id"] \notin FinalIds

Widgetry == { "st.sidebar.slider", "st.sidebar.multiselect",
              "st.metric:Total Orders", "st.metric:Avg. Review Score",
              "st.metric:Late Delivery Rate", "st.metric:Total Revenue",
              "st.plotly_chart:Average Review Score by Delivery Status",
              "st.plotly_chart:Late Delivery Rate by State",
              "st.plotly_chart:Revenue vs. Satisfaction by Product Category",
              "st.plotly_chart:Monthly Orders & Late Delivery Trend" }
Messages == { "st.error:Failed to load data. Please check the data files and path.",
              "st.warning:No data available for the selected filters." }
Shown == { rendered[i] : i \in 1..Len(rendered) }
PipelineFailed == returned = "None" \/ (Done /\ final_df = <<>>)

\* C8: in a dashboard session where the pipeline gave no data (None) or an empty
\* table, no filter widget, KPI or chart is rendered, and the run ends with the
\* error or warning message shown.
C8_FailureIsTerminal ==
    (entry = "app" /\ PipelineFailed) =>
        /\ Shown \cap Widgetry = {}
        /\ pc \in { "stopped", "uncaught", "page_complete" } => Shown \cap Messages # {}

\* C9 as stated: each first-value field of a record is the value of that field in
\* the order's first merged row, null or not.
C9_FirstRowValue ==
    Done => \A n \in 1..Len(final_df), c \in first_cols :
               final_df[n][NewName(c)]
                  = Group(master_df, final_df[n]["order_id"])[1][c]

\* C9 as amended: each first-value field of a record is the first non-null value
\* of that field among the order's merged rows, in merge order, and is null only
\* when the field is null in all of them; Review Score is the score of the first
\* review row of the order that has one.
C9_FirstNonNullValue ==
    Done => \A n \in 1..Len(final_df), c \in first_cols :
               LET g == Group(master_df, final_df[n]["order_id"])
                   v == final_df[n][NewName(c)]
               IN  \/ \E i \in 1..Len(g) : /\ ~IsNull(g[i][c])
                                           /\ \A j \in 1..(i-1) : IsNull(g[j][c])
                                           /\ v = g[i][c]
                   \/ /\ \A i \in 1..Len(g) : IsNull(g[i][c])
                      /\ IsNull(v)

\* a record whose Review Score is not null although the review_score of its
\* order's first merged row is
C9_NullFirstReviewSkipped ==
    /\ Done
    /\ \E n \in 1..Len(final_df) :
          /\ IsNull(Group(master_df, final_df[n]["order_id"])[1]["review_score"])
          /\ ~IsNull(final_df[n]["Review Score"])

OrderCsvOf(k) ==
    CHOOSE o \in { OrdersCsv[i] : i \in 1..Len(OrdersCsv) } : o["order_id"] = k

\* estimated minus delivered of order k, in seconds
SecondsEarly(k) ==
    Val(to_datetime(OrderCsvOf(k)["order_estimated_delivery_date"]))
       - Val(to_datetime(OrderCsvOf(k)["order_delivered_customer_date"]))

\* C10: Delivery Timeliness is the floor, in days, of estimated minus delivered
\* on the full timestamps: any lateness, even under a day, gives a negative
\* value, and estimated 2018-05-10 with delivered 2018-05-12 gives -2.
C10_TimelinessIsFloorOfDays ==
    Done => \A n \in 1..Len(final_df) :
               LET k == final_df[n]["order_id"]
                   t == Val(final_df[n]["Delivery Timeliness"])
               IN  /\ t * 86400 <= SecondsEarly(k)
                   /\ SecondsEarly(k) < (t + 1) * 86400
                   /\ SecondsEarly(k) < 0 => t < 0
                   /\ SecondsEarly(k) > 0 => t >= 0
                   /\ ( /\ OrderCsvOf(k)["order_estimated_delivery_date"] = <<2018, 5, 10, 0, 0, 0>>
                        /\ OrderCsvOf(k)["order_delivered_customer_date"] = <<2018, 5, 12, 0, 0, 0>> )
                         => t = -2

\* a record delivered one second after the estimate: Delivery Timeliness is -1
C10_OneSecondLate ==
    /\ Done
    /\ \E n \in 1..Len(final_df) :
          /\ SecondsEarly(final_df[n]["order_id"]) = -1
          /\ final_df[n]["Delivery Timeliness"] = <<-1>>

=============================================================================
